---- MODULE Spec2Model ----
(***************************************************************************)
(* jp::ordered_set (include/jp/ordered_set.hpp): a red-black tree with     *)
(* subtree sizes (order statistics), modelled on an explicit heap of node  *)
(* records linked by addresses.  Every public operation is one action; the *)
(* loops of the code are RECURSIVE operators over a machine record         *)
(*   m = [h, al, nil, root, fault]                                         *)
(* (heap, allocated addresses, this->m_nil, this->m_root, and a flag set   *)
(* when an invalid pointer is dereferenced).  Statements in sequence are    *)
(* written Do(e, LAMBDA v : rest): v names the value of e in rest.          *)
(***************************************************************************)
EXTENDS Integers, Sequences, FiniteSets, TLC

\* ---------------------------------------------------------------- bounds
\* Keys of the single-tree specification are 1..MaxKey.
MaxKey == 6
\* Keys of the two-tree (copy) specification are 1..CopyMaxKey.
CopyMaxKey == 3
\* Keys of the lifecycle specification (copy, move, destruction) are
\* 1..LifeMaxKey.
LifeMaxKey == 2

\* ------------------------------------------------------------- constants
RED == 0
BLACK == 1
\* nullptr
NULL == 0
\* size_t arithmetic wraps; the model checker's integers are 32 bits wide, so
\* the modulus 2^64 of size_t is represented by 2^30 (every stored size is
\* far below it, and only the wrap-around of "+= size_t(-1)" is used).
SizeMod == 2^30

Key == 1..MaxKey
\* Key{} for Key = int, the key stored in the sentinel
KeyDefault == 0
\* the address pool of the allocator: two sentinels and two full trees
Addr == 1..(2 * (MaxKey + 1))
Ptr == Addr \cup {NULL}
Tree == {"a", "b"}

VARIABLES
    heap,       \* Ptr -> node record (size, left, right, parent, key, color)
    allocated,  \* addresses handed out by new and not yet deleted
    m_nil,      \* Tree -> Ptr
    m_root,     \* Tree -> Ptr
    keys,       \* ghost: Tree -> keys inserted and not since erased
    ret,        \* the last public call and what it returned
    fault       \* an operation dereferenced an invalid pointer

vars == <<heap, allocated, m_nil, m_root, keys, ret, fault>>

\* ------------------------------------------------------------------ node
\* struct node; the content of a cell that is not allocated
node(key, size, left, right, parent, color) ==
    [size |-> size, left |-> left, right |-> right, parent |-> parent,
     key |-> key, color |-> color]

FreeCell == node(KeyDefault, 0, NULL, NULL, NULL, BLACK)

\* std::less<int>
CMP(lhs, rhs) == lhs < rhs

equal(lhs, rhs) == (~CMP(lhs, rhs)) /\ (~CMP(rhs, lhs))

not_equal(lhs, rhs) == CMP(lhs, rhs) \/ CMP(rhs, lhs)

\* size_t addition and subtraction
AddSz(a, b) == (a + b) % SizeMod
SubSz(a, b) == (a - b + SizeMod) % SizeMod
\* size_t(-1), the value updateSize receives for -1
MinusOne == SizeMod - 1

\* ------------------------------------------------------- machine record
\* F applied to the value of v, which is computed once
Do(v, F(_)) == CHOOSE r \in {F(a) : a \in {v}} : TRUE

Machine(t) ==
    [h |-> heap, al |-> allocated, nil |-> m_nil[t], root |-> m_root[t],
     fault |-> FALSE]

\* x->left, x->right, x->parent, x->size, x->color, x->key
Lf(m, x) == m.h[x].left
Rt(m, x) == m.h[x].right
Pa(m, x) == m.h[x].parent
Sz(m, x) == m.h[x].size
Co(m, x) == m.h[x].color
Ky(m, x) == m.h[x].key

\* the machine after an invalid pointer was dereferenced
Faulted(m) == [m EXCEPT !.fault = TRUE]

\* a write through pointer x; writing through an invalid pointer is a fault
SetLeft(m, x, v) ==
    IF x \in m.al THEN [m EXCEPT !.h[x].left = v] ELSE Faulted(m)
SetRight(m, x, v) ==
    IF x \in m.al THEN [m EXCEPT !.h[x].right = v] ELSE Faulted(m)
SetParent(m, x, v) ==
    IF x \in m.al THEN [m EXCEPT !.h[x].parent = v] ELSE Faulted(m)
SetSize(m, x, v) ==
    IF x \in m.al THEN [m EXCEPT !.h[x].size = v] ELSE Faulted(m)
SetColor(m, x, v) ==
    IF x \in m.al THEN [m EXCEPT !.h[x].color = v] ELSE Faulted(m)
SetRoot(m, v) == [m EXCEPT !.root = v]

\* operator new may return any address that is not allocated.  The code never
\* orders addresses or computes with them, so its behaviour is the same under
\* every renaming of addresses; one free address per request is therefore
\* fixed: the address `hint' when it is free, else the lowest free address.
\* A sentinel is placed at the start of a free arena of ArenaLen addresses and
\* the node of key k at offset k from the sentinel of its tree.
ArenaLen == MaxKey + 1

new_addr(m, hint) ==
    IF hint \in Addr \ m.al
    THEN hint
    ELSE CHOOSE a \in Addr \ m.al : \A b \in Addr \ m.al : a <= b

SentinelHint(m) ==
    IF \E a \in Addr \ m.al : (a - 1) % ArenaLen = 0
    THEN CHOOSE a \in Addr \ m.al :
             /\ (a - 1) % ArenaLen = 0
             /\ \A b \in Addr \ m.al : (b - 1) % ArenaLen = 0 => a <= b
    ELSE NULL

new_node(m, a, key, size, left, right, parent, color) ==
    [m EXCEPT !.h[a] = node(key, size, left, right, parent, color),
              !.al = m.al \cup {a}]

\* operator delete: nothing for nullptr, a fault for a pointer not allocated
delete_node(m, a) ==
    IF a = NULL THEN m
    ELSE IF a \in m.al
    THEN [m EXCEPT !.h[a] = FreeCell, !.al = m.al \ {a}]
    ELSE Faulted(m)

\* ------------------------------------------------------------- primitives
\* updateSize with "do ... while" in place of "while": the first node is
\* updated before it is compared with end
RECURSIVE updateSize_do_while(_, _, _, _)
updateSize_do_while(m, start, end, value) ==
    IF m.fault THEN m
    ELSE Do(SetSize(m, start, AddSz(Sz(m, start), value)), LAMBDA m1 :
         Do(Pa(m1, start), LAMBDA next :
         IF next = end THEN m1
         ELSE updateSize_do_while(m1, next, end, value)))

\* updateSize with "if" in place of "while": only the first node is updated
updateSize_once(m, start, end, value) ==
    IF start = end THEN m
    ELSE SetSize(m, start, AddSz(Sz(m, start), value))

RECURSIVE updateSize(_, _, _, _)
updateSize(m, start, end, value) ==
    IF start = end \/ m.fault
    THEN m
    ELSE Do(SetSize(m, start, AddSz(Sz(m, start), value)), LAMBDA m1 :
         Do(Pa(m1, start), LAMBDA next :
         updateSize(m1, next, end, value)))

\* the statements of rotate_left and rotate_right that hang y where x was
rotate_relink(m, x, y) ==
    IF Pa(m, x) = m.nil THEN SetRoot(m, y)
    ELSE IF x = Lf(m, Pa(m, x)) THEN SetLeft(m, Pa(m, x), y)
    ELSE SetRight(m, Pa(m, x), y)

rotate_left(m, x) ==
    Do(Rt(m, x), LAMBDA y :
    Do(SetRight(m, x, Lf(m, y)), LAMBDA m1 :
    Do(IF Lf(m1, y) # m1.nil THEN SetParent(m1, Lf(m1, y), x) ELSE m1, LAMBDA m2 :
    Do(SetParent(m2, y, Pa(m2, x)), LAMBDA m3 :
    Do(rotate_relink(m3, x, y), LAMBDA m4 :
    Do(SetLeft(m4, y, x), LAMBDA m5 :
    Do(SetParent(m5, x, y), LAMBDA m6 :
    Do(IF Lf(m6, x) # m6.nil
       THEN SetSize(m6, y, AddSz(Sz(m6, y), Sz(m6, Lf(m6, x))))
       ELSE m6, LAMBDA m7 :
    Do(SetSize(m7, y, AddSz(Sz(m7, y), 1)), LAMBDA m8 :
    Do(IF Rt(m8, y) # m8.nil
       THEN SetSize(m8, x, SubSz(Sz(m8, x), Sz(m8, Rt(m8, y))))
       ELSE m8, LAMBDA m9 :
    SetSize(m9, x, SubSz(Sz(m9, x), 1))))))))))))

rotate_right(m, x) ==
    Do(Lf(m, x), LAMBDA y :
    Do(SetLeft(m, x, Rt(m, y)), LAMBDA m1 :
    Do(IF Rt(m1, y) # m1.nil THEN SetParent(m1, Rt(m1, y), x) ELSE m1, LAMBDA m2 :
    Do(SetParent(m2, y, Pa(m2, x)), LAMBDA m3 :
    Do(rotate_relink(m3, x, y), LAMBDA m4 :
    Do(SetRight(m4, y, x), LAMBDA m5 :
    Do(SetParent(m5, x, y), LAMBDA m6 :
    Do(IF Rt(m6, x) # m6.nil
       THEN SetSize(m6, y, AddSz(Sz(m6, y), Sz(m6, Rt(m6, x))))
       ELSE m6, LAMBDA m7 :
    Do(SetSize(m7, y, AddSz(Sz(m7, y), 1)), LAMBDA m8 :
    Do(IF Lf(m8, y) # m8.nil
       THEN SetSize(m8, x, SubSz(Sz(m8, x), Sz(m8, Lf(m8, y))))
       ELSE m8, LAMBDA m9 :
    SetSize(m9, x, SubSz(Sz(m9, x), 1))))))))))))

transplant(m, u, v) ==
    Do(IF Pa(m, u) = m.nil THEN SetRoot(m, v)
       ELSE IF u = Lf(m, Pa(m, u)) THEN SetLeft(m, Pa(m, u), v)
       ELSE SetRight(m, Pa(m, u), v), LAMBDA m1 :
    SetParent(m1, v, Pa(m1, u)))

\* ---------------------------------------------------------------- insert
\* the recoloring of fixup_insert when the uncle y is RED
fixup_insert_recolor(m, z, y) ==
    Do(SetColor(m, Pa(m, z), BLACK), LAMBDA m1 :
    Do(SetColor(m1, y, BLACK), LAMBDA m2 :
    Do(SetColor(m2, Pa(m2, Pa(m2, z)), RED), LAMBDA m3 :
    [m |-> m3, z |-> Pa(m3, Pa(m3, z))])))

\* the body of fixup_insert's while loop when z->parent is a left child
fixup_insert_left(m, z) ==
    Do(Rt(m, Pa(m, Pa(m, z))), LAMBDA y :
    IF Co(m, y) = RED
    THEN fixup_insert_recolor(m, z, y)
    ELSE Do(z = Rt(m, Pa(m, z)), LAMBDA turn :
         Do(IF turn THEN Pa(m, z) ELSE z, LAMBDA z1 :
         Do(IF turn THEN rotate_left(m, z1) ELSE m, LAMBDA m1 :
         Do(SetColor(m1, Pa(m1, z1), BLACK), LAMBDA m2 :
         Do(SetColor(m2, Pa(m2, Pa(m2, z1)), RED), LAMBDA m3 :
         Do(rotate_right(m3, Pa(m3, Pa(m3, z1))), LAMBDA m4 :
         [m |-> m4, z |-> z1])))))))

\* the body of fixup_insert's while loop when z->parent is a right child
fixup_insert_right(m, z) ==
    Do(Lf(m, Pa(m, Pa(m, z))), LAMBDA y :
    IF Co(m, y) = RED
    THEN fixup_insert_recolor(m, z, y)
    ELSE Do(z = Lf(m, Pa(m, z)), LAMBDA turn :
         Do(IF turn THEN Pa(m, z) ELSE z, LAMBDA z1 :
         Do(IF turn THEN rotate_right(m, z1) ELSE m, LAMBDA m1 :
         Do(SetColor(m1, Pa(m1, z1), BLACK), LAMBDA m2 :
         Do(SetColor(m2, Pa(m2, Pa(m2, z1)), RED), LAMBDA m3 :
         Do(rotate_left(m3, Pa(m3, Pa(m3, z1))), LAMBDA m4 :
         [m |-> m4, z |-> z1])))))))

RECURSIVE fixup_insert_loop(_, _)
fixup_insert_loop(m, z) ==
    IF m.fault \/ Co(m, Pa(m, z)) # RED
    THEN m
    ELSE Do(IF Pa(m, z) = Lf(m, Pa(m, Pa(m, z)))
            THEN fixup_insert_left(m, z)
            ELSE fixup_insert_right(m, z), LAMBDA s :
         Do(s.m, LAMBDA m1 :
         Do(s.z, LAMBDA z1 :
         fixup_insert_loop(m1, z1))))

\* fixup_insert without its last statement, m_root->color = BLACK
fixup_insert_root_unpainted(m, z) == fixup_insert_loop(m, z)

\* fixup_insert without its loop: no recoloring and no rotation
fixup_insert_skipped(m, z) == SetColor(m, m.root, BLACK)

fixup_insert(m, z) ==
    Do(fixup_insert_loop(m, z), LAMBDA m1 :
    SetColor(m1, m1.root, BLACK))

\* the descent of insert without the test equal(key, x->key)
RECURSIVE insert_descend_no_equal(_, _, _, _)
insert_descend_no_equal(m, key, x, y) ==
    IF x = m.nil THEN [found |-> FALSE, x |-> x, y |-> y, fault |-> FALSE]
    ELSE IF x \notin m.al THEN [found |-> FALSE, x |-> x, y |-> y, fault |-> TRUE]
    ELSE IF CMP(key, Ky(m, x))
    THEN Do(Lf(m, x), LAMBDA next : insert_descend_no_equal(m, key, next, x))
    ELSE Do(Rt(m, x), LAMBDA next : insert_descend_no_equal(m, key, next, x))

\* the descent of insert: the node holding key, or the last node visited
RECURSIVE insert_descend(_, _, _, _)
insert_descend(m, key, x, y) ==
    IF x = m.nil THEN [found |-> FALSE, x |-> x, y |-> y, fault |-> FALSE]
    ELSE IF x \notin m.al THEN [found |-> FALSE, x |-> x, y |-> y, fault |-> TRUE]
    ELSE IF equal(key, Ky(m, x)) THEN [found |-> TRUE, x |-> x, y |-> x, fault |-> FALSE]
    ELSE IF CMP(key, Ky(m, x))
    THEN Do(Lf(m, x), LAMBDA next : insert_descend(m, key, next, x))
    ELSE Do(Rt(m, x), LAMBDA next : insert_descend(m, key, next, x))

\* insert linking the new node on the other side of y
insert_link_swapped(m, z, y) ==
    IF y = m.nil THEN SetRoot(m, z)
    ELSE IF CMP(Ky(m, z), Ky(m, y)) THEN SetRight(m, y, z)
    ELSE SetLeft(m, y, z)

\* the statements of insert that link the new node z below y
insert_link(m, z, y) ==
    IF y = m.nil THEN SetRoot(m, z)
    ELSE IF CMP(Ky(m, z), Ky(m, y)) THEN SetLeft(m, y, z)
    ELSE SetRight(m, y, z)

\* the statements of insert that create and place the node of an absent key
insert_new(m, key, y) ==
    Do(new_addr(m, m.nil + key), LAMBDA z :
    Do(new_node(m, z, key, 1, m.nil, m.nil, y, RED), LAMBDA m1 :
    Do(insert_link(m1, z, y), LAMBDA m2 :
    Do(updateSize(m2, Pa(m2, z), m2.nil, 1), LAMBDA m3 :
    Do(fixup_insert(m3, z), LAMBDA m4 :
    [m |-> m4, node |-> z, inserted |-> TRUE])))))

insert(m, key) ==
    Do(insert_descend(m, key, m.root, m.nil), LAMBDA d :
    IF d.fault
    THEN [m |-> Faulted(m), node |-> NULL, inserted |-> FALSE]
    ELSE IF d.found
    THEN [m |-> m, node |-> d.x, inserted |-> FALSE]
    ELSE insert_new(m, key, d.y))

\* --------------------------------------------------------------- queries
\* a query's answer: ok is FALSE when the query dereferenced an invalid pointer
Ok(v) == [ok |-> TRUE, v |-> v]
Bad == [ok |-> FALSE, v |-> 0]

RECURSIVE min_walk(_, _)
min_walk(m, x) ==
    IF x \notin m.al THEN Bad
    ELSE IF Lf(m, x) # m.nil THEN Do(Lf(m, x), LAMBDA next : min_walk(m, next))
    ELSE Ok(x)

\* min(node*) with "if" in place of "while": a single step to the left
min_one_step(m, x) ==
    IF x # m.nil /\ x \notin m.al THEN Bad
    ELSE IF x # m.nil /\ Lf(m, x) # m.nil THEN Ok(Lf(m, x))
    ELSE Ok(x)

min(m, x) == IF x # m.nil THEN min_walk(m, x) ELSE Ok(x)

RECURSIVE max_walk(_, _)
max_walk(m, x) ==
    IF x \notin m.al THEN Bad
    ELSE IF Rt(m, x) # m.nil THEN Do(Rt(m, x), LAMBDA next : max_walk(m, next))
    ELSE Ok(x)

max(m, x) == IF x # m.nil THEN max_walk(m, x) ELSE Ok(x)

\* the parent walk of successor
RECURSIVE successor_up(_, _)
successor_up(m, x) ==
    IF x = m.nil THEN Ok(m.nil)
    ELSE IF x \notin m.al \/ Pa(m, x) \notin m.al THEN Bad
    ELSE IF x = Lf(m, Pa(m, x)) THEN Ok(Pa(m, x))
    ELSE Do(Pa(m, x), LAMBDA next : successor_up(m, next))

\* successor without the walk up through the parents
successor_no_climb(m, x) ==
    IF x \notin m.al THEN Bad
    ELSE IF Rt(m, x) # m.nil THEN min(m, Rt(m, x))
    ELSE Ok(m.nil)

successor(m, x) ==
    IF x \notin m.al THEN Bad
    ELSE IF Rt(m, x) # m.nil THEN min(m, Rt(m, x))
    ELSE successor_up(m, x)

\* the parent walk of predecessor
RECURSIVE predecessor_up(_, _)
predecessor_up(m, x) ==
    IF x = m.nil THEN Ok(m.nil)
    ELSE IF x \notin m.al \/ Pa(m, x) \notin m.al THEN Bad
    ELSE IF x = Rt(m, Pa(m, x)) THEN Ok(Pa(m, x))
    ELSE Do(Pa(m, x), LAMBDA next : predecessor_up(m, next))

\* predecessor without the walk up through the parents
predecessor_no_climb(m, x) ==
    IF x \notin m.al THEN Bad
    ELSE IF Lf(m, x) # m.nil THEN max(m, Lf(m, x))
    ELSE Ok(m.nil)

predecessor(m, x) ==
    IF x \notin m.al THEN Bad
    ELSE IF Lf(m, x) # m.nil THEN max(m, Lf(m, x))
    ELSE predecessor_up(m, x)

\* the descent of search with the two branches exchanged
RECURSIVE search_walk_swapped(_, _, _)
search_walk_swapped(m, key, x) ==
    IF x = m.nil THEN Ok(x)
    ELSE IF x \notin m.al THEN Bad
    ELSE IF ~not_equal(key, Ky(m, x)) THEN Ok(x)
    ELSE IF CMP(key, Ky(m, x))
    THEN Do(Rt(m, x), LAMBDA next : search_walk_swapped(m, key, next))
    ELSE Do(Lf(m, x), LAMBDA next : search_walk_swapped(m, key, next))

RECURSIVE search_walk(_, _, _)
search_walk(m, key, x) ==
    IF x = m.nil THEN Ok(x)
    ELSE IF x \notin m.al THEN Bad
    ELSE IF ~not_equal(key, Ky(m, x)) THEN Ok(x)
    ELSE IF CMP(key, Ky(m, x))
    THEN Do(Lf(m, x), LAMBDA next : search_walk(m, key, next))
    ELSE Do(Rt(m, x), LAMBDA next : search_walk(m, key, next))

search(m, key) == search_walk(m, key, m.root)

\* the end of order_of_key without "if (x != m_nil) --current"
order_of_key_tail_no_decrement(m, x, current) ==
    IF x \notin m.al THEN Bad
    ELSE IF Rt(m, x) # m.nil /\ Rt(m, x) \notin m.al THEN Bad
    ELSE Ok(IF Rt(m, x) # m.nil THEN SubSz(current, Sz(m, Rt(m, x)))
            ELSE current)

\* the statements of order_of_key after its loop
order_of_key_tail(m, x, current) ==
    IF x \notin m.al THEN Bad
    ELSE IF Rt(m, x) # m.nil /\ Rt(m, x) \notin m.al THEN Bad
    ELSE Do(IF Rt(m, x) # m.nil THEN SubSz(current, Sz(m, Rt(m, x)))
            ELSE current, LAMBDA c1 :
         Ok(IF x # m.nil THEN SubSz(c1, 1) ELSE c1))

RECURSIVE order_of_key_walk(_, _, _, _)
order_of_key_walk(m, key, x, current) ==
    IF x # m.nil /\ x \notin m.al THEN Bad
    ELSE IF x # m.nil /\ not_equal(key, Ky(m, x))
    THEN IF CMP(key, Ky(m, x))
         THEN IF Rt(m, x) # m.nil /\ Rt(m, x) \notin m.al THEN Bad
              ELSE Do(SubSz(current, 1), LAMBDA c1 :
                   Do(IF Rt(m, x) # m.nil THEN SubSz(c1, Sz(m, Rt(m, x)))
                      ELSE c1, LAMBDA c2 :
                   Do(Lf(m, x), LAMBDA next :
                   order_of_key_walk(m, key, next, c2))))
         ELSE Do(Rt(m, x), LAMBDA next :
              order_of_key_walk(m, key, next, current))
    ELSE order_of_key_tail(m, x, current)

\* order_of_key starting its counter at m_root->left->size, as find_by_order
\* does, instead of m_root->size
order_of_key_from_left(m, key) ==
    IF m.root \notin m.al \/ Lf(m, m.root) \notin m.al THEN Bad
    ELSE Do(Sz(m, Lf(m, m.root)), LAMBDA current :
         order_of_key_walk(m, key, m.root, current))

order_of_key(m, key) ==
    IF m.root \notin m.al THEN Bad
    ELSE Do(Sz(m, m.root), LAMBDA current :
         order_of_key_walk(m, key, m.root, current))

RECURSIVE find_by_order_walk(_, _, _, _)
find_by_order_walk(m, order, x, current) ==
    IF x # m.nil /\ current # order
    THEN IF x \notin m.al THEN Bad
         ELSE IF current > order
         THEN Do(Lf(m, x), LAMBDA x1 :
              IF x1 \notin m.al \/ Lf(m, x1) \notin m.al THEN Bad
              ELSE Do(AddSz(SubSz(current, Sz(m, x1)), Sz(m, Lf(m, x1))),
                      LAMBDA c1 : find_by_order_walk(m, order, x1, c1)))
         ELSE Do(Rt(m, x), LAMBDA x1 :
              IF x1 \notin m.al \/ Lf(m, x1) \notin m.al THEN Bad
              ELSE Do(AddSz(current, AddSz(1, Sz(m, Lf(m, x1)))),
                      LAMBDA c1 : find_by_order_walk(m, order, x1, c1)))
    ELSE Ok(x)

\* find_by_order starting its counter at 0 instead of m_root->left->size
find_by_order_from_zero(m, order) ==
    IF m.root \notin m.al \/ Lf(m, m.root) \notin m.al THEN Bad
    ELSE find_by_order_walk(m, order, m.root, 0)

find_by_order(m, order) ==
    IF m.root \notin m.al \/ Lf(m, m.root) \notin m.al THEN Bad
    ELSE Do(Sz(m, Lf(m, m.root)), LAMBDA current :
         find_by_order_walk(m, order, m.root, current))

find(m, key) == search(m, key)

begin(m) == find_by_order(m, 0)

end(m) == Ok(m.nil)

\* min() and max() of the public interface
tree_min(m) == min(m, m.root)

tree_max(m) == max(m, m.root)

size(m) == IF m.root \in m.al THEN Ok(Sz(m, m.root)) ELSE Bad

empty(m) == IF m.root \in m.al THEN Ok(Sz(m, m.root) = 0) ELSE Bad

\* ----------------------------------------------------------------- erase
\* fixup_erase, x a left child: the statements for a RED sibling w
fixup_erase_left_red(m, x, w) ==
    IF Co(m, w) = RED
    THEN Do(SetColor(m, w, BLACK), LAMBDA m1 :
         Do(SetColor(m1, Pa(m1, x), RED), LAMBDA m2 :
         Do(rotate_left(m2, Pa(m2, x)), LAMBDA m3 :
         [m |-> m3, w |-> Rt(m3, Pa(m3, x))])))
    ELSE [m |-> m, w |-> w]

\* fixup_erase, x a left child: the statements for a sibling w with a RED child
fixup_erase_left_rotate(m, x, w) ==
    Do(IF Co(m, Rt(m, w)) = BLACK
       THEN Do(SetColor(m, Lf(m, w), BLACK), LAMBDA m1 :
            Do(SetColor(m1, w, RED), LAMBDA m2 :
            Do(rotate_right(m2, w), LAMBDA m3 :
            [m |-> m3, w |-> Rt(m3, Pa(m3, x))])))
       ELSE [m |-> m, w |-> w], LAMBDA s :
    Do(s.m, LAMBDA m4 :
    Do(s.w, LAMBDA w1 :
    Do(SetColor(m4, w1, Co(m4, Pa(m4, x))), LAMBDA m5 :
    Do(SetColor(m5, Pa(m5, x), BLACK), LAMBDA m6 :
    Do(SetColor(m6, Rt(m6, w1), BLACK), LAMBDA m7 :
    Do(rotate_left(m7, Pa(m7, x)), LAMBDA m8 :
    [m |-> m8, x |-> m8.root])))))))

\* the body for a left child x without "x = x->parent" after the sibling
\* was painted RED
fixup_erase_left_stuck(m, x) ==
    Do(fixup_erase_left_red(m, x, Rt(m, Pa(m, x))), LAMBDA s :
    Do(s.m, LAMBDA m1 :
    Do(s.w, LAMBDA w :
    IF Co(m1, Lf(m1, w)) = BLACK /\ Co(m1, Rt(m1, w)) = BLACK
    THEN Do(SetColor(m1, w, RED), LAMBDA m2 :
         [m |-> m2, x |-> x])
    ELSE fixup_erase_left_rotate(m1, x, w))))

\* the body of fixup_erase's while loop when x is a left child
fixup_erase_left(m, x) ==
    Do(fixup_erase_left_red(m, x, Rt(m, Pa(m, x))), LAMBDA s :
    Do(s.m, LAMBDA m1 :
    Do(s.w, LAMBDA w :
    IF Co(m1, Lf(m1, w)) = BLACK /\ Co(m1, Rt(m1, w)) = BLACK
    THEN Do(SetColor(m1, w, RED), LAMBDA m2 :
         [m |-> m2, x |-> Pa(m2, x)])
    ELSE fixup_erase_left_rotate(m1, x, w))))

\* fixup_erase, x a right child: the statements for a RED sibling w
fixup_erase_right_red(m, x, w) ==
    IF Co(m, w) = RED
    THEN Do(SetColor(m, w, BLACK), LAMBDA m1 :
         Do(SetColor(m1, Pa(m1, x), RED), LAMBDA m2 :
         Do(rotate_right(m2, Pa(m2, x)), LAMBDA m3 :
         [m |-> m3, w |-> Lf(m3, Pa(m3, x))])))
    ELSE [m |-> m, w |-> w]

\* fixup_erase, x a right child: the statements for a sibling w with a RED child
fixup_erase_right_rotate(m, x, w) ==
    Do(IF Co(m, Lf(m, w)) = BLACK
       THEN Do(SetColor(m, Rt(m, w), BLACK), LAMBDA m1 :
            Do(SetColor(m1, w, RED), LAMBDA m2 :
            Do(rotate_left(m2, w), LAMBDA m3 :
            [m |-> m3, w |-> Lf(m3, Pa(m3, x))])))
       ELSE [m |-> m, w |-> w], LAMBDA s :
    Do(s.m, LAMBDA m4 :
    Do(s.w, LAMBDA w1 :
    Do(SetColor(m4, w1, Co(m4, Pa(m4, x))), LAMBDA m5 :
    Do(SetColor(m5, Pa(m5, x), BLACK), LAMBDA m6 :
    Do(SetColor(m6, Lf(m6, w1), BLACK), LAMBDA m7 :
    Do(rotate_right(m7, Pa(m7, x)), LAMBDA m8 :
    [m |-> m8, x |-> m8.root])))))))

\* the body of fixup_erase's while loop when x is a right child
fixup_erase_right(m, x) ==
    Do(fixup_erase_right_red(m, x, Lf(m, Pa(m, x))), LAMBDA s :
    Do(s.m, LAMBDA m1 :
    Do(s.w, LAMBDA w :
    IF Co(m1, Rt(m1, w)) = BLACK /\ Co(m1, Lf(m1, w)) = BLACK
    THEN Do(SetColor(m1, w, RED), LAMBDA m2 :
         [m |-> m2, x |-> Pa(m2, x)])
    ELSE fixup_erase_right_rotate(m1, x, w))))

RECURSIVE fixup_erase_loop(_, _)
fixup_erase_loop(m, x) ==
    IF m.fault THEN [m |-> m, x |-> x]
    ELSE IF x # m.root /\ Co(m, x) = BLACK
    THEN Do(IF x = Lf(m, Pa(m, x))
            THEN fixup_erase_left(m, x)
            ELSE fixup_erase_right(m, x), LAMBDA s :
         Do(s.m, LAMBDA m1 :
         Do(s.x, LAMBDA x1 :
         fixup_erase_loop(m1, x1))))
    ELSE [m |-> m, x |-> x]

fixup_erase(m, x) ==
    Do(fixup_erase_loop(m, x), LAMBDA s :
    SetColor(s.m, s.x, BLACK))

\* erase(node*), two children, the successor y deeper than z->right:
\* y is unlinked and takes over z's right subtree
erase_detach_successor(m, z, y) ==
    Do(updateSize(m, Pa(m, y), z, MinusOne), LAMBDA a1 :
    Do(SetSize(a1, y, SubSz(Sz(a1, y), Sz(a1, Rt(a1, y)))), LAMBDA a2 :
    Do(transplant(a2, y, Rt(a2, y)), LAMBDA a3 :
    Do(SetRight(a3, y, Rt(a3, z)), LAMBDA a4 :
    Do(SetParent(a4, Rt(a4, y), y), LAMBDA a5 :
    SetSize(a5, y, AddSz(Sz(a5, y), Sz(a5, Rt(a5, y)))))))))

\* erase(node*), the branch for a node z with two children
erase_two_children(m, z) ==
    Do(min(m, Rt(m, z)).v, LAMBDA y :
    Do(Co(m, y), LAMBDA y_original_color :
    Do(Rt(m, y), LAMBDA x :
    Do(Pa(m, y) = z, LAMBDA direct :
    Do(IF direct THEN SetParent(m, x, y)
       ELSE erase_detach_successor(m, z, y), LAMBDA m1 :
    Do(transplant(m1, z, y), LAMBDA m2 :
    Do(SetLeft(m2, y, Lf(m2, z)), LAMBDA m3 :
    Do(SetParent(m3, Lf(m3, y), y), LAMBDA m4 :
    Do(SetColor(m4, y, Co(m4, z)), LAMBDA m5 :
    Do(SetSize(m5, y, AddSz(Sz(m5, y), Sz(m5, Lf(m5, y)))), LAMBDA m6 :
    [m |-> m6, x |-> x, y_original_color |-> y_original_color,
     kind |-> IF direct THEN "two_direct" ELSE "two_deep"]))))))))))

\* erase(node*), the three cases that splice z out of the tree
erase_splice(m, z) ==
    IF Lf(m, z) = m.nil
    THEN [m |-> transplant(m, z, Rt(m, z)), x |-> Rt(m, z),
          y_original_color |-> Co(m, z), kind |-> "no_left"]
    ELSE IF Rt(m, z) = m.nil
    THEN [m |-> transplant(m, z, Lf(m, z)), x |-> Lf(m, z),
          y_original_color |-> Co(m, z), kind |-> "no_right"]
    ELSE erase_two_children(m, z)

\* erase(node*) returning the node spliced into z's place, not successor(z)
erase_node_returns_replacement(m, z) ==
    Do(updateSize(m, Pa(m, z), m.nil, MinusOne), LAMBDA m1 :
    Do(erase_splice(m1, z), LAMBDA s :
    Do(IF s.y_original_color = BLACK THEN fixup_erase(s.m, s.x) ELSE s.m,
       LAMBDA m2 :
    Do(SetParent(m2, m2.nil, m2.nil), LAMBDA m3 :
    Do(delete_node(m3, z), LAMBDA m4 :
    [m |-> m4, node |-> s.x, found |-> TRUE, kind |-> s.kind,
     nil_black |-> Co(m3, m3.nil) = BLACK])))))

\* erase(node*) that, for a node z with two children, copies the successor's
\* key into z and unlinks and frees the successor's node instead of z
erase_node_key_copied(m, z) ==
    Do(Lf(m, z) # m.nil /\ Rt(m, z) # m.nil, LAMBDA two :
    Do(IF two THEN min(m, Rt(m, z)).v ELSE z, LAMBDA y :
    Do(successor(m, z), LAMBDA it :
    Do([m EXCEPT !.h[z].key = Ky(m, y)], LAMBDA m0 :
    Do(updateSize(m0, Pa(m0, y), m0.nil, MinusOne), LAMBDA m1 :
    Do(erase_splice(m1, y), LAMBDA s :
    Do(IF s.y_original_color = BLACK THEN fixup_erase(s.m, s.x) ELSE s.m,
       LAMBDA m2 :
    Do(SetParent(m2, m2.nil, m2.nil), LAMBDA m3 :
    Do(delete_node(m3, y), LAMBDA m4 :
    [m |-> IF it.ok THEN m4 ELSE Faulted(m4),
     node |-> IF two THEN z ELSE it.v, found |-> TRUE,
     kind |-> IF two THEN "two_direct" ELSE s.kind,
     nil_black |-> Co(m3, m3.nil) = BLACK])))))))))

\* erase(node*) without the statement m_nil->parent = m_nil
erase_node_parent_not_reset(m, z) ==
    Do(updateSize(m, Pa(m, z), m.nil, MinusOne), LAMBDA m1 :
    Do(successor(m1, z), LAMBDA it :
    Do(erase_splice(m1, z), LAMBDA s :
    Do(IF s.y_original_color = BLACK THEN fixup_erase(s.m, s.x) ELSE s.m,
       LAMBDA m2 :
    Do(delete_node(m2, z), LAMBDA m4 :
    [m |-> IF it.ok THEN m4 ELSE Faulted(m4),
     node |-> it.v, found |-> TRUE, kind |-> s.kind,
     nil_black |-> Co(m2, m2.nil) = BLACK])))))

\* erase(node*)
erase_node(m, z) ==
    Do(updateSize(m, Pa(m, z), m.nil, MinusOne), LAMBDA m1 :
    Do(successor(m1, z), LAMBDA it :
    Do(erase_splice(m1, z), LAMBDA s :
    Do(IF s.y_original_color = BLACK THEN fixup_erase(s.m, s.x) ELSE s.m,
       LAMBDA m2 :
    Do(SetParent(m2, m2.nil, m2.nil), LAMBDA m3 :
    Do(delete_node(m3, z), LAMBDA m4 :
    [m |-> IF it.ok THEN m4 ELSE Faulted(m4),
     node |-> it.v, found |-> TRUE, kind |-> s.kind,
     nil_black |-> Co(m3, m3.nil) = BLACK]))))))

\* erase(const Key&) without the test z == m_nil
erase_unchecked(m, key) ==
    Do(search(m, key), LAMBDA z :
    IF ~z.ok
    THEN [m |-> Faulted(m), node |-> NULL, found |-> FALSE,
          kind |-> "absent", nil_black |-> TRUE]
    ELSE erase_node(m, z.v))

\* erase(const Key&)
erase(m, key) ==
    Do(search(m, key), LAMBDA z :
    IF ~z.ok
    THEN [m |-> Faulted(m), node |-> NULL, found |-> FALSE,
          kind |-> "absent", nil_black |-> TRUE]
    ELSE IF z.v = m.nil
    THEN [m |-> m, node |-> m.nil, found |-> FALSE, kind |-> "absent",
          nil_black |-> TRUE]
    ELSE erase_node(m, z.v))

\* ------------------------------------------------------------- lifecycle
\* the nodes erase_tree and deep_copy push after visiting x
push_children(m, x, nil) ==
    (IF Lf(m, x) # nil THEN <<Lf(m, x)>> ELSE <<>>)
    \o (IF Rt(m, x) # nil THEN <<Rt(m, x)>> ELSE <<>>)

RECURSIVE erase_tree_loop(_, _)
erase_tree_loop(m, buffor) ==
    IF buffor = <<>> \/ m.fault THEN m
    ELSE Do(Head(buffor), LAMBDA x :
         IF x \notin m.al THEN Faulted(m)
         ELSE Do(Tail(buffor) \o push_children(m, x, m.nil), LAMBDA b1 :
              Do(delete_node(m, x), LAMBDA m1 :
              erase_tree_loop(m1, b1))))

erase_tree(m, root) ==
    IF root = m.nil THEN m ELSE erase_tree_loop(m, <<root>>)

delete_all_memory(m) ==
    Do(erase_tree(m, m.root), LAMBDA m1 :
    Do(delete_node(m1, m1.nil), LAMBDA m2 :
    [m2 EXCEPT !.nil = NULL, !.root = NULL]))

\* the loop of deep_copy; m is the machine of dst, src_nil is src.m_nil
RECURSIVE deep_copy_loop(_, _, _)
deep_copy_loop(m, src_nil, buffor) ==
    IF buffor = <<>> \/ m.fault THEN m
    ELSE Do(Head(buffor), LAMBDA x :
         IF x \notin m.al THEN Faulted(m)
         ELSE Do(insert(m, Ky(m, x)).m, LAMBDA m1 :
              Do(Tail(buffor) \o push_children(m1, x, src_nil), LAMBDA b1 :
              deep_copy_loop(m1, src_nil, b1))))

\* deep_copy(src, dst): m is the machine of dst
deep_copy(m, src_nil, src_root) ==
    IF src_root = src_nil THEN m
    ELSE deep_copy_loop(m, src_nil, <<src_root>>)

\* ------------------------------------------------------------ the program
\* ordered_set() without the three statements that link the sentinel to
\* itself
ordered_set_unlinked(m) ==
    Do(new_addr(m, SentinelHint(m)), LAMBDA n :
    Do(new_node(m, n, KeyDefault, 0, NULL, NULL, NULL, BLACK), LAMBDA m1 :
    SetRoot([m1 EXCEPT !.nil = n], n)))

\* ordered_set(): a fresh sentinel linked to itself
ordered_set(m) ==
    Do(new_addr(m, SentinelHint(m)), LAMBDA n :
    Do(new_node(m, n, KeyDefault, 0, NULL, NULL, NULL, BLACK), LAMBDA m1 :
    Do(SetRoot([m1 EXCEPT !.nil = n], n), LAMBDA m2 :
    Do(SetLeft(m2, n, n), LAMBDA m3 :
    Do(SetRight(m3, n, n), LAMBDA m4 :
    SetParent(m4, n, n))))))

\* the memory before any tree is constructed
EmptyMachine ==
    [h |-> [p \in Ptr |-> FreeCell], al |-> {}, nil |-> NULL, root |-> NULL,
     fault |-> FALSE]

\* a copy constructor that takes over the node graph of other
ordered_set_copy_shallow(m, other_nil, other_root) ==
    [m EXCEPT !.nil = other_nil, !.root = other_root]

\* ordered_set(const ordered_set& other): m carries the heap, the result is
\* the machine of the new tree
ordered_set_copy(m, other_nil, other_root) ==
    Do(ordered_set(m), LAMBDA m1 :
    deep_copy(m1, other_nil, other_root))

\* "return *this" of the assignment operators, whose return type is
\* ordered_set by value: a temporary is copy-constructed from *this and
\* destroyed at the end of the full expression.  The result is the machine
\* of *this on the heap the temporary leaves behind.
return_this_by_value(m) ==
    Do(ordered_set_copy(m, m.nil, m.root), LAMBDA tmp :
    Do(delete_all_memory(tmp), LAMBDA gone :
    [m EXCEPT !.h = gone.h, !.al = gone.al, !.fault = gone.fault]))

\* operator=(const ordered_set& other): m is the machine of *this
copy_assign(m, same, other_nil, other_root) ==
    IF same THEN return_this_by_value(m)
    ELSE Do(deep_copy(m, other_nil, other_root), LAMBDA m1 :
         return_this_by_value(m1))

\* clear() without its last statement, m_root = m_nil
clear_root_kept(m) == erase_tree(m, m.root)

\* clear()
clear(m) ==
    Do(erase_tree(m, m.root), LAMBDA m1 :
    SetRoot(m1, m1.nil))

\* the two statements that leave the source of a move with a fresh sentinel
\* whose links are nullptr; m is the machine of other
moved_from(m) ==
    Do(new_addr(m, SentinelHint(m)), LAMBDA n :
    Do(new_node(m, n, KeyDefault, 0, NULL, NULL, NULL, BLACK), LAMBDA m1 :
    SetRoot([m1 EXCEPT !.nil = n], n)))

\* ordered_set(ordered_set&& other): m is the machine of other; the result
\* holds the machine of the new tree and the m_nil and m_root left in other
ordered_set_move(m) ==
    Do(moved_from(m), LAMBDA o :
    [this |-> [o EXCEPT !.nil = m.nil, !.root = m.root],
     other |-> [nil |-> o.nil, root |-> o.root]])

\* operator=(ordered_set&&) without delete_all_memory(): the nodes and the
\* sentinel *this held are dropped, not freed
move_assign_no_delete(m, same, other) ==
    IF same
    THEN Do(return_this_by_value(m), LAMBDA m1 :
         [this |-> m1, other |-> [nil |-> m1.nil, root |-> m1.root]])
    ELSE Do(moved_from([m EXCEPT !.nil = other.nil, !.root = other.root]),
            LAMBDA o :
         Do(return_this_by_value([o EXCEPT !.nil = other.nil,
                                           !.root = other.root]), LAMBDA m2 :
         [this |-> m2, other |-> [nil |-> o.nil, root |-> o.root]]))

\* operator=(ordered_set&& other): m is the machine of *this, other holds
\* other.m_nil and other.m_root
move_assign(m, same, other) ==
    IF same
    THEN Do(return_this_by_value(m), LAMBDA m1 :
         [this |-> m1, other |-> [nil |-> m1.nil, root |-> m1.root]])
    ELSE Do(delete_all_memory(m), LAMBDA m1 :
         Do(moved_from([m1 EXCEPT !.nil = other.nil, !.root = other.root]),
            LAMBDA o :
         Do(return_this_by_value([o EXCEPT !.nil = other.nil,
                                           !.root = other.root]), LAMBDA m2 :
         [this |-> m2, other |-> [nil |-> o.nil, root |-> o.root]])))

\* ret before the first call
NoRet == [op |-> "none", t |-> "a", key |-> 0, node |-> NULL, flag |-> FALSE,
          kind |-> "none"]

\* one tree, "a", default-constructed
Init ==
    \E ma \in {ordered_set(EmptyMachine)} :
        /\ heap = ma.h
        /\ allocated = ma.al
        /\ m_nil = [t \in Tree |-> IF t = "a" THEN ma.nil ELSE NULL]
        /\ m_root = [t \in Tree |-> IF t = "a" THEN ma.root ELSE NULL]
        /\ keys = [t \in Tree |-> {}]
        /\ ret = NoRet
        /\ fault = FALSE

\* what a call on tree t leaves behind
Store(t, m) ==
    /\ heap' = m.h
    /\ allocated' = m.al
    /\ m_nil' = [m_nil EXCEPT ![t] = m.nil]
    /\ m_root' = [m_root EXCEPT ![t] = m.root]
    /\ fault' = m.fault

\* t.insert(k); operator new is taken not to throw
Insert(t, k) ==
    /\ ~fault
    /\ m_nil[t] # NULL
    /\ Addr \ allocated # {}
    /\ \E r \in {insert(Machine(t), k)} :
           /\ Store(t, r.m)
           /\ keys' = [keys EXCEPT ![t] = @ \cup {k}]
           /\ ret' = [op |-> "insert", t |-> t, key |-> k, node |-> r.node,
                      flag |-> r.inserted, kind |-> "none"]

\* t.erase(k)
Erase(t, k) ==
    /\ ~fault
    /\ m_nil[t] # NULL
    /\ \E r \in {erase(Machine(t), k)} :
           /\ Store(t, r.m)
           /\ keys' = [keys EXCEPT ![t] = @ \ {k}]
           /\ ret' = [op |-> "erase", t |-> t, key |-> k, node |-> r.node,
                      flag |-> r.found, kind |-> r.kind]

\* t.clear(); ret records the root and the number of keys before the call
Clear(t) ==
    /\ ~fault
    /\ m_nil[t] # NULL
    /\ \E m \in {clear(Machine(t))} :
           /\ Store(t, m)
           /\ keys' = [keys EXCEPT ![t] = {}]
           /\ ret' = [op |-> "clear", t |-> t, key |-> Cardinality(keys[t]),
                      node |-> m_root[t], flag |-> keys[t] # {},
                      kind |-> "none"]

Next ==
    \/ \E k \in Key : Insert("a", k)
    \/ \E k \in Key : Erase("a", k)
    \/ Clear("a")

Spec == Init /\ [][Next]_vars

\* the nodes reachable from x through left and right links, at most fuel deep
RECURSIVE Reach(_, _, _)
Reach(m, x, fuel) ==
    IF x = m.nil \/ x \notin m.al \/ fuel = 0 THEN {}
    ELSE {x} \cup Reach(m, Lf(m, x), fuel - 1) \cup Reach(m, Rt(m, x), fuel - 1)

\* two trees, "a" and "b", default-constructed
InitCopy ==
    \E ma \in {ordered_set(EmptyMachine)} :
    \E mb \in {ordered_set(ma)} :
        /\ heap = mb.h
        /\ allocated = mb.al
        /\ m_nil = [t \in Tree |-> IF t = "a" THEN ma.nil ELSE mb.nil]
        /\ m_root = [t \in Tree |-> IF t = "a" THEN ma.root ELSE mb.root]
        /\ keys = [t \in Tree |-> {}]
        /\ ret = NoRet
        /\ fault = FALSE

CopyKey == 1..CopyMaxKey

\* dst = src; operator new is taken not to throw: the guard leaves room for
\* the nodes deep_copy inserts and for the temporary of the by-value return
CopyAssign(dst, src) ==
    /\ ~fault
    /\ m_nil[dst] # NULL /\ m_nil[src] # NULL
    /\ Cardinality(Addr \ allocated) >= 2 * CopyMaxKey + 1
    /\ \E m \in {copy_assign(Machine(dst), dst = src, m_nil[src], m_root[src])} :
       \E copied \in {{heap[n].key :
                         n \in Reach(Machine(src), m_root[src], MaxKey + 2)}} :
           /\ Store(dst, m)
           /\ keys' = [keys EXCEPT ![dst] = IF dst = src THEN @ ELSE @ \cup copied]
           /\ ret' = [op |-> "copy_assign", t |-> dst, key |-> 0, node |-> NULL,
                      flag |-> dst # src, kind |-> src]

NextCopy ==
    \/ \E t \in Tree, k \in CopyKey : Insert(t, k)
    \/ \E t \in Tree, k \in CopyKey : Erase(t, k)
    \/ \E dst, src \in Tree : CopyAssign(dst, src)

SpecCopy == InitCopy /\ [][NextCopy]_vars

\* what a move from src into dst leaves behind in both trees
StoreMove(dst, src, r) ==
    /\ heap' = r.this.h
    /\ allocated' = r.this.al
    /\ m_nil' = [m_nil EXCEPT ![src] = r.other.nil, ![dst] = r.this.nil]
    /\ m_root' = [m_root EXCEPT ![src] = r.other.root, ![dst] = r.this.root]
    /\ fault' = r.this.fault

\* ordered_set t; (a tree that does not exist is one whose m_nil is NULL here)
Construct(t) ==
    /\ ~fault
    /\ m_nil[t] = NULL
    /\ Addr \ allocated # {}
    /\ \E m \in {ordered_set(Machine(t))} :
           /\ Store(t, m)
           /\ keys' = [keys EXCEPT ![t] = {}]
           /\ ret' = [op |-> "construct", t |-> t, key |-> 0, node |-> NULL,
                      flag |-> FALSE, kind |-> "none"]

\* ordered_set dst(src);
CopyConstruct(dst, src) ==
    /\ ~fault
    /\ m_nil[dst] = NULL /\ m_nil[src] # NULL
    /\ Cardinality(Addr \ allocated) >= CopyMaxKey + 1
    /\ \E m \in {ordered_set_copy(Machine(dst), m_nil[src], m_root[src])} :
           /\ Store(dst, m)
           /\ keys' = [keys EXCEPT ![dst] = keys[src]]
           /\ ret' = [op |-> "copy_construct", t |-> dst, key |-> 0,
                      node |-> NULL, flag |-> keys[src] # {}, kind |-> src]

\* ordered_set dst(std::move(src));
MoveConstruct(dst, src) ==
    /\ ~fault
    /\ m_nil[dst] = NULL /\ m_nil[src] # NULL
    /\ Addr \ allocated # {}
    /\ \E r \in {ordered_set_move(Machine(src))} :
           /\ StoreMove(dst, src, r)
           /\ keys' = [keys EXCEPT ![src] = {}, ![dst] = keys[src]]
           /\ ret' = [op |-> "move_construct", t |-> dst, key |-> 0,
                      node |-> NULL, flag |-> keys[src] # {}, kind |-> src]

\* dst = std::move(src); the guard leaves room for the fresh sentinel and for
\* the temporary of the by-value return; ret records the number of keys dst
\* held before the call
MoveAssign(dst, src) ==
    /\ ~fault
    /\ m_nil[dst] # NULL /\ m_nil[src] # NULL
    /\ Cardinality(Addr \ allocated) >= CopyMaxKey + 2
    /\ \E r \in {move_assign(Machine(dst), dst = src,
                             [nil |-> m_nil[src], root |-> m_root[src]])} :
           /\ StoreMove(dst, src, r)
           /\ keys' = IF dst = src THEN keys
                      ELSE [keys EXCEPT ![src] = {}, ![dst] = keys[src]]
           /\ ret' = [op |-> "move_assign", t |-> dst,
                      key |-> Cardinality(keys[dst]),
                      node |-> NULL, flag |-> dst # src /\ keys[src] # {},
                      kind |-> src]

\* the end of t's lifetime: ~ordered_set()
Destroy(t) ==
    /\ ~fault
    /\ m_nil[t] # NULL
    /\ \E m \in {delete_all_memory(Machine(t))} :
           /\ Store(t, m)
           /\ keys' = [keys EXCEPT ![t] = {}]
           /\ ret' = [op |-> "destroy", t |-> t, key |-> 0, node |-> NULL,
                      flag |-> FALSE, kind |-> "none"]

LifeKey == 1..LifeMaxKey

NextLife ==
    \/ \E t \in Tree, k \in LifeKey : Insert(t, k)
    \/ \E t \in Tree, k \in LifeKey : Erase(t, k)
    \/ \E t \in Tree : Clear(t)
    \/ \E t \in Tree : Construct(t)
    \/ \E dst, src \in Tree : CopyConstruct(dst, src)
    \/ \E dst, src \in Tree : CopyAssign(dst, src)
    \/ \E dst, src \in Tree : MoveConstruct(dst, src)
    \/ \E dst, src \in Tree : MoveAssign(dst, src)
    \/ \E t \in Tree : Destroy(t)

SpecLife == Init /\ [][NextLife]_vars

\* a tree and its copies: the second tree only ever exists as a copy
NextDup ==
    \/ \E t \in Tree, k \in CopyKey : Insert(t, k)
    \/ \E t \in Tree, k \in CopyKey : Erase(t, k)
    \/ \E dst, src \in Tree : CopyConstruct(dst, src)
    \/ \E t \in Tree : Destroy(t)

SpecDup == Init /\ [][NextDup]_vars

\* ---------------------------------------------------------- observations
\* Definitions used to state the properties; they read the node graph
\* directly and are bounded by Fuel, so that they are defined on any heap.
Fuel == MaxKey + 2

\* the machine of tree t after the step
MachineNext(t) ==
    [h |-> heap', al |-> allocated', nil |-> m_nil'[t], root |-> m_root'[t],
     fault |-> FALSE]

Nodes(m) == Reach(m, m.root, Fuel)

SubKeys(m, x) == {Ky(m, n) : n \in Reach(m, x, Fuel)}

\* the elements of a finite set of integers in increasing order
RECURSIVE SortedSeq(_)
SortedSeq(S) ==
    IF S = {} THEN <<>>
    ELSE Do(CHOOSE a \in S : \A b \in S : a <= b, LAMBDA lo :
         <<lo>> \o SortedSeq(S \ {lo}))

\* the walk "for (it = begin(); it != end(); ++it)": the keys read, whether
\* every call was valid, and whether end() was reached within Fuel steps
RECURSIVE TraverseFrom(_, _, _)
TraverseFrom(m, x, fuel) ==
    IF x = m.nil THEN [ok |-> TRUE, ended |-> TRUE, seq |-> <<>>]
    ELSE IF fuel = 0 THEN [ok |-> TRUE, ended |-> FALSE, seq |-> <<>>]
    ELSE Do(successor(m, x), LAMBDA nx :
         IF ~nx.ok \/ x \notin m.al
         THEN [ok |-> FALSE, ended |-> FALSE, seq |-> <<>>]
         ELSE Do(TraverseFrom(m, nx.v, fuel - 1), LAMBDA rest :
              [rest EXCEPT !.seq = <<Ky(m, x)>> \o rest.seq]))

Traverse(m) ==
    Do(begin(m), LAMBDA b :
    IF b.ok THEN TraverseFrom(m, b.v, Fuel)
    ELSE [ok |-> FALSE, ended |-> FALSE, seq |-> <<>>])

StrictlyIncreasing(q) == \A i \in 1..(Len(q) - 1) : q[i] < q[i + 1]

\* the number of BLACK nodes on every path from x down to the sentinel, the
\* sentinel included; -1 when two paths differ
RECURSIVE BlackHeight(_, _, _)
BlackHeight(m, x, fuel) ==
    IF x = m.nil THEN 1
    ELSE IF fuel = 0 \/ x \notin m.al THEN -1
    ELSE Do(BlackHeight(m, Lf(m, x), fuel - 1), LAMBDA l :
         Do(BlackHeight(m, Rt(m, x), fuel - 1), LAMBDA r :
         IF l = -1 \/ r = -1 \/ l # r THEN -1
         ELSE l + (IF Co(m, x) = BLACK THEN 1 ELSE 0)))

\* the keys and ranks a query is asked about: every key, one below, one above
ProbeKey == 0..(MaxKey + 1)
ProbeOrder == 0..(MaxKey + 1)

\* ------------------------------------------------------------ properties
\* C1: after any sequence of insert and erase calls, walking from begin()
\* with ++ until end() reads a strictly increasing key sequence, equal to the
\* sorted sequence of the keys inserted and not since erased, and the number
\* of positions visited equals size().
C1_Traversal ==
    \A m \in {Machine("a")} :
    \A w \in {Traverse(m)} :
        /\ w.ok /\ w.ended
        /\ StrictlyIncreasing(w.seq)
        /\ w.seq = SortedSeq(keys["a"])
        /\ size(m) = Ok(Len(w.seq))

C1_Witness ==
    /\ ret.op = "erase" /\ ret.flag
    /\ Cardinality(keys["a"]) >= 4
    /\ \E m \in {Machine("a")} : Len(Traverse(m).seq) >= 4

\* C2: on every reachable tree, the empty one included, and for every key,
\* present or absent, order_of_key returns without fault the number of stored
\* keys strictly less than the key: 0 at or below the minimum, size() above
\* the maximum.
C2_OrderOfKey ==
    \A m \in {Machine("a")} :
    \A k \in ProbeKey :
    \A r \in {order_of_key(m, k)} :
        /\ r = Ok(Cardinality({x \in keys["a"] : x < k}))
        /\ (\A x \in keys["a"] : k <= x) => r = Ok(0)
        /\ (\A x \in keys["a"] : x < k) => r = size(m)

C2_Witness ==
    /\ Cardinality(keys["a"]) >= 3
    /\ \E m \in {Machine("a")} :
       \E k \in ProbeKey \ keys["a"] :
       \E r \in {order_of_key(m, k)} :
           r.ok /\ 0 < r.v /\ r.v < Cardinality(keys["a"])

\* C3: on every reachable tree and for every rank r, find_by_order(r) is the
\* position of the key at 0-based position r of the sorted stored keys when
\* r < size(), and end() when r >= size().
C3_FindByOrder ==
    \A m \in {Machine("a")} :
    \A sorted \in {SortedSeq(keys["a"])} :
    \A n \in {size(m)} :
    \A r \in ProbeOrder :
    \A f \in {find_by_order(m, r)} :
        /\ f.ok /\ n.ok
        /\ r < n.v =>
               /\ f.v \in Nodes(m)
               /\ r < Len(sorted)
               /\ Ky(m, f.v) = sorted[r + 1]
        /\ r >= n.v => f = end(m)

C3_Witness ==
    /\ Cardinality(keys["a"]) >= 4
    /\ ret.op = "erase" /\ ret.flag
    /\ \E m \in {Machine("a")} :
       \E f \in {find_by_order(m, 2)} :
           f.ok /\ f.v # m_nil["a"] /\ f.v # m_root["a"]

\* C4: after any sequence of inserts and erases every node's size field is
\* 1 + left.size + right.size, the sentinel counting 0; also after erasing a
\* node with two children, whether the successor is its right child or deeper.
C4_SizeAugmentation ==
    \A x \in allocated \ {m_nil["a"]} :
        heap[x].size =
            1 + (IF heap[x].left = m_nil["a"] THEN 0 ELSE heap[heap[x].left].size)
              + (IF heap[x].right = m_nil["a"] THEN 0 ELSE heap[heap[x].right].size)

C4_Witness ==
    /\ ret.op = "erase" /\ ret.kind = "two_deep"
    /\ Cardinality(keys["a"]) >= 4

\* C5: after every insert or erase the root is BLACK, the sentinel is BLACK,
\* no RED node has a RED child, and every path from a node down to the
\* sentinel holds the same number of BLACK nodes.
C5_RedBlack ==
    \A m \in {Machine("a")} :
        /\ Co(m, m.root) = BLACK
        /\ Co(m, m.nil) = BLACK
        /\ \A x \in Nodes(m) :
               Co(m, x) = RED =>
                   Co(m, Lf(m, x)) = BLACK /\ Co(m, Rt(m, x)) = BLACK
        /\ \A x \in Nodes(m) : BlackHeight(m, x, Fuel) # -1

C5_Witness ==
    /\ ret.op = "erase" /\ ret.flag
    /\ Cardinality(keys["a"]) >= 5
    /\ \E x \in allocated \ {m_nil["a"]} : heap[x].color = RED

\* C6: after every insert or erase the node graph is a binary search tree
\* with unique keys: below every node the left keys are less and the right
\* keys greater, no two nodes hold equivalent keys, every child's parent link
\* points to the node whose child it is, and the root's parent is the sentinel.
C6_SearchTree ==
    \A m \in {Machine("a")} :
    \A nodes \in {Nodes(m)} :
        /\ nodes = allocated \ {m.nil}
        /\ \A x \in nodes :
               /\ \A k \in SubKeys(m, Lf(m, x)) : CMP(k, Ky(m, x))
               /\ \A k \in SubKeys(m, Rt(m, x)) : CMP(Ky(m, x), k)
               /\ Lf(m, x) # m.nil => Pa(m, Lf(m, x)) = x
               /\ Rt(m, x) # m.nil => Pa(m, Rt(m, x)) = x
               /\ x # m.root =>
                      /\ Pa(m, x) \in nodes
                      /\ x = Lf(m, Pa(m, x)) \/ x = Rt(m, Pa(m, x))
        /\ \A x, y \in nodes : x # y => ~equal(Ky(m, x), Ky(m, y))
        /\ Pa(m, m.root) = m.nil

C6_Witness ==
    /\ ret.op = "insert" /\ ret.flag
    /\ Cardinality(keys["a"]) >= 5
    /\ \E x \in allocated \ {m_nil["a"], m_root["a"]} :
           /\ heap[x].left # m_nil["a"]
           /\ heap[x].right # m_nil["a"]

\* C7: insert(k) of a key already present returns the position of the node
\* holding k with inserted = false and changes nothing: no node is allocated,
\* and every link, color, size, the root, size() and every order_of_key
\* answer stay as they were.
C7_InsertPresent ==
    [][(ret'.op = "insert" /\ ret'.key \in keys[ret'.t]) =>
          \A before \in {Machine(ret'.t)} :
          \A after \in {MachineNext(ret'.t)} :
              /\ ~ret'.flag
              /\ ret'.node \in Nodes(before)
              /\ heap[ret'.node].key = ret'.key
              /\ heap' = heap /\ allocated' = allocated
              /\ m_root' = m_root /\ m_nil' = m_nil /\ keys' = keys
              /\ ~fault'
              /\ size(after) = size(before)
              /\ \A k \in ProbeKey :
                     order_of_key(after, k) = order_of_key(before, k)
      ]_vars

C7_Witness ==
    /\ ret.op = "insert" /\ ~ret.flag
    /\ ret.node \notin {m_root["a"], m_nil["a"], NULL}
    /\ heap[ret.node].key = ret.key
    /\ Cardinality(keys["a"]) >= 3

\* C8: erase(k) of a key that is not present returns end() and leaves the
\* tree as it was: the same nodes, links, colors, sizes, root and sentinel.
C8_EraseAbsent ==
    [][(ret'.op = "erase" /\ ret'.key \notin keys[ret'.t]) =>
          /\ ~ret'.flag
          /\ ret'.node = m_nil[ret'.t]
          /\ heap' = heap /\ allocated' = allocated
          /\ m_root' = m_root /\ m_nil' = m_nil /\ keys' = keys
          /\ ~fault'
      ]_vars

C8_Witness ==
    /\ ret.op = "erase" /\ ~ret.flag
    /\ ret.node = m_nil["a"]
    /\ ret.key \notin keys["a"]
    /\ Cardinality(keys["a"]) >= 3

\* C9: erase(k) of a present key returns a position that, once the erase is
\* done, is a live node of the tree holding the smallest stored key greater
\* than k, or end() when k was the maximum, in each of the three cases of the
\* deletion.
C9_EraseReturnsNext ==
    [][(ret'.op = "erase" /\ ret'.key \in keys[ret'.t]) =>
          \A m \in {MachineNext(ret'.t)} :
          \A stored \in {SubKeys(m, m.root)} :
          \A greater \in {{x \in stored : x > ret'.key}} :
              /\ ret'.flag /\ ~fault'
              /\ ret'.kind \in {"no_left", "no_right", "two_direct", "two_deep"}
              /\ ret'.key \notin stored
              /\ IF greater = {}
                 THEN ret'.node = m.nil
                 ELSE /\ ret'.node \in Nodes(m)
                      /\ Ky(m, ret'.node) \in greater
                      /\ \A x \in greater : Ky(m, ret'.node) <= x
      ]_vars

C9_Witness ==
    /\ ret.op = "erase" /\ ret.flag /\ ret.kind = "two_direct"
    /\ ret.node \in allocated \ {m_nil["a"]}
    /\ heap[ret.node].key > ret.key
    /\ \E x \in keys["a"] : x > heap[ret.node].key

\* C10: after the copy assignment dst = src of two distinct trees, whatever
\* dst held before, dst holds exactly the keys of src: the sizes are equal,
\* the in-order traversals and the rank answers are equal, and src is
\* unchanged.
C10_CopyAssignEqualsSource ==
    [][(ret'.op = "copy_assign" /\ ret'.flag) =>
          \A dst \in {MachineNext(ret'.t)} :
          \A src \in {MachineNext(ret'.kind)} :
          \A old \in {Machine(ret'.kind)} :
              /\ ~fault'
              /\ size(dst) = size(src)
              /\ Traverse(dst) = Traverse(src)
              /\ \A k \in ProbeKey : order_of_key(dst, k) = order_of_key(src, k)
              /\ Traverse(src) = Traverse(old)
              /\ \A n \in Nodes(old) \cup {old.nil} : heap'[n] = heap[n]
      ]_vars

\* the answers order_of_key and find_by_order must give on tree m when it
\* stores exactly the keys S
RanksMatch(m, S) ==
    \A sorted \in {SortedSeq(S)} :
        /\ \A k \in ProbeKey :
               order_of_key(m, k) = Ok(Cardinality({x \in S : x < k}))
        /\ \A r \in 0..(Len(sorted) - 1) :
           \A f \in {find_by_order(m, r)} :
               f.ok /\ f.v \in Nodes(m) /\ Ky(m, f.v) = sorted[r + 1]

\* C11: a move construction or move assignment from a populated tree leaves
\* the source empty, source.size() == 0 and source.begin() == source.end()
\* both evaluating without fault, and leaves the destination holding exactly
\* the source's original keys with correct order_of_key and find_by_order
\* answers.
C11_MoveLeavesSourceEmpty ==
    [][(ret'.op \in {"move_construct", "move_assign"} /\ ret'.flag) =>
          \A src \in {MachineNext(ret'.kind)} :
          \A dst \in {MachineNext(ret'.t)} :
              /\ ~fault'
              /\ size(src) = Ok(0)
              /\ begin(src) = end(src)
              /\ SubKeys(dst, dst.root) = keys[ret'.kind]
              /\ size(dst) = Ok(Cardinality(keys[ret'.kind]))
              /\ RanksMatch(dst, keys[ret'.kind])
      ]_vars

\* C12: after a move construction or move assignment the source is a valid
\* empty tree, built like a default-constructed one: its sentinel is BLACK,
\* the sentinel's left, right and parent point to the sentinel, the root is
\* the sentinel, and find, order_of_key and find_by_order answer on it as on
\* a default-constructed tree.
C12_MovedFromIsDefault ==
    [][(ret'.op \in {"move_construct", "move_assign"} /\ ret'.t # ret'.kind) =>
          \A src \in {MachineNext(ret'.kind)} :
              /\ src.nil \in allocated' /\ src.root = src.nil
              /\ Co(src, src.nil) = BLACK
              /\ Lf(src, src.nil) = src.nil
              /\ Rt(src, src.nil) = src.nil
              /\ Pa(src, src.nil) = src.nil
              /\ \A k \in ProbeKey :
                     find(src, k) = end(src) /\ order_of_key(src, k) = Ok(0)
              /\ \A r \in ProbeOrder : find_by_order(src, r) = end(src)
      ]_vars

\* the other tree
Other(t) == IF t = "a" THEN "b" ELSE "a"

\* C13: a copy-constructed tree is a deep copy: it holds the keys of the
\* original in nodes of its own under a sentinel of its own, and an insert or
\* erase on either of the two trees leaves the other tree's size, keys and
\* rank answers unchanged.
C13_DeepCopy ==
    [][/\ ret'.op = "copy_construct" =>
              \A src \in {MachineNext(ret'.kind)} :
              \A dst \in {MachineNext(ret'.t)} :
                  /\ ~fault'
                  /\ SubKeys(dst, dst.root) = SubKeys(src, src.root)
                  /\ SubKeys(dst, dst.root) = keys[ret'.kind]
                  /\ size(dst) = size(src)
                  /\ RanksMatch(dst, keys[ret'.kind])
                  /\ dst.nil # src.nil
                  /\ (Nodes(dst) \cup {dst.nil}) \cap (Nodes(src) \cup {src.nil}) = {}
                  /\ \A n \in Nodes(src) \cup {src.nil} : heap'[n] = heap[n]
       /\ (ret'.op \in {"insert", "erase"} /\ m_nil[Other(ret'.t)] # NULL) =>
              \A before \in {Machine(Other(ret'.t))} :
              \A after \in {MachineNext(Other(ret'.t))} :
                  /\ ~fault'
                  /\ after.nil = before.nil /\ after.root = before.root
                  /\ \A n \in Nodes(before) \cup {before.nil} :
                         n \in allocated' /\ heap'[n] = heap[n]
                  /\ size(after) = size(before)
                  /\ SubKeys(after, after.root) = keys[Other(ret'.t)]
                  /\ RanksMatch(after, keys[Other(ret'.t)])
      ]_vars

C13_Witness ==
    /\ ret.op = "erase" /\ ret.flag /\ ret.t = "b"
    /\ m_nil["a"] # NULL /\ m_nil["b"] # NULL
    /\ Cardinality(keys["a"]) = CopyMaxKey
    /\ keys["b"] # {} /\ keys["b"] # keys["a"]
    /\ \E m \in {Machine("a")} : SubKeys(m, m.root) = keys["a"]

\* C14: on every tree reachable by inserts and erases, for every i with
\* 0 <= i < size(), order_of_key of the key at find_by_order(i) is i, and for
\* every stored key k the position find_by_order(order_of_key(k)) is the node
\* holding k.
C14_RankRoundTrip ==
    \A m \in {Machine("a")} :
    \A n \in {size(m)} :
        /\ n.ok
        /\ \A i \in 0..(n.v - 1) :
           \A f \in {find_by_order(m, i)} :
               /\ f.ok /\ f.v \in Nodes(m)
               /\ order_of_key(m, Ky(m, f.v)) = Ok(i)
        /\ \A x \in Nodes(m) :
           \A o \in {order_of_key(m, Ky(m, x))} :
               /\ o.ok /\ o.v < n.v
               /\ find_by_order(m, o.v) = Ok(x)

C14_Witness ==
    /\ ret.op = "erase" /\ ret.flag
    /\ Cardinality(keys["a"]) >= 5
    /\ \E m \in {Machine("a")} :
       \E x \in Nodes(m) \ {m.root} :
           order_of_key(m, Ky(m, x)) = Ok(3) /\ find_by_order(m, 3) = Ok(x)

SentinelSelf(m) ==
    /\ m.nil \in m.al
    /\ Co(m, m.nil) = BLACK
    /\ Lf(m, m.nil) = m.nil /\ Rt(m, m.nil) = m.nil /\ Pa(m, m.nil) = m.nil

NextByKey(m, S, x) ==
    \A greater \in {{k \in S : k > Ky(m, x)}} :
        successor(m, x) =
            IF greater = {} THEN end(m)
            ELSE search(m, CHOOSE k \in greater : \A j \in greater : k <= j)

\* the position before x in key order, end() if none
PrevByKey(m, S, x) ==
    \A smaller \in {{k \in S : k < Ky(m, x)}} :
        predecessor(m, x) =
            IF smaller = {} THEN end(m)
            ELSE search(m, CHOOSE k \in smaller : \A j \in smaller : k >= j)

\* C18: nodes keep their identity: insert moves no stored key to another
\* node, and erase(k) of a present key frees exactly the node that held k,
\* also when that node has two children; every other stored key stays in its
\* node, so a position taken earlier for a surviving key still reads that key
\* and ++ and -- from it follow the current key order.
C18_NodeIdentity ==
    [][(ret'.op \in {"insert", "erase"}) =>
          \A before \in {Machine(ret'.t)} :
          \A after \in {MachineNext(ret'.t)} :
          \A z \in {search(before, ret'.key)} :
              /\ ~fault' /\ z.ok
              /\ ret'.op = "insert" =>
                     /\ allocated \subseteq allocated'
                     /\ z.v = before.nil =>
                            allocated' \ allocated = {ret'.node}
              /\ (ret'.op = "erase" /\ ret'.flag) =>
                     /\ z.v \in Nodes(before)
                     /\ allocated' = allocated \ {z.v}
              /\ \A k \in keys'[ret'.t] \cap keys[ret'.t] :
                 \A x \in {search(before, k)} :
                     /\ x.ok /\ x.v \in Nodes(before)
                     /\ search(after, k) = x
                     /\ x.v \in allocated' /\ Ky(after, x.v) = k
                     /\ NextByKey(after, keys'[ret'.t], x.v)
                     /\ PrevByKey(after, keys'[ret'.t], x.v)
      ]_vars

C18_Witness ==
    /\ ret.op = "erase" /\ ret.flag /\ ret.kind = "two_deep"
    /\ ret.node = m_root["a"]
    /\ heap[ret.node].key > ret.key
    /\ Cardinality(keys["a"]) >= 4
    /\ \E m \in {Machine("a")} : \A k \in keys["a"] : search(m, k).v \in allocated

\* C19: on every reachable non-empty tree min() is the position of the
\* smallest stored key, max() the position of the largest, and begin(), min()
\* and find_by_order(0) are the same position; end() is the sentinel and is
\* the position of no stored key.
C19_MinMaxBeginEnd ==
    \A m \in {Machine("a")} :
        /\ end(m) = Ok(m_nil["a"])
        /\ \A k \in keys["a"] : find(m, k).ok /\ find(m, k) # end(m)
        /\ keys["a"] # {} =>
               \A lo \in {tree_min(m)} :
               \A hi \in {tree_max(m)} :
                   /\ lo.ok /\ lo.v \in Nodes(m)
                   /\ hi.ok /\ hi.v \in Nodes(m)
                   /\ Ky(m, lo.v) \in keys["a"]
                   /\ Ky(m, hi.v) \in keys["a"]
                   /\ \A k \in keys["a"] : Ky(m, lo.v) <= k /\ k <= Ky(m, hi.v)
                   /\ begin(m) = lo
                   /\ find_by_order(m, 0) = lo

C19_Witness ==
    /\ ret.op = "erase" /\ ret.flag
    /\ Cardinality(keys["a"]) >= 5
    /\ \E m \in {Machine("a")} :
       \E lo \in {tree_min(m)} :
       \E hi \in {tree_max(m)} :
           /\ lo.ok /\ hi.ok
           /\ Pa(m, lo.v) # m.root /\ Pa(m, hi.v) # m.root
           /\ lo.v # m.root /\ hi.v # m.root

\* the walk "for (it = max(); it != end(); --it)": the keys read, whether
\* every call was valid, and whether end() was reached within fuel steps
RECURSIVE TraverseBackFrom(_, _, _)
TraverseBackFrom(m, x, fuel) ==
    IF x = m.nil THEN [ok |-> TRUE, ended |-> TRUE, seq |-> <<>>]
    ELSE IF fuel = 0 THEN [ok |-> TRUE, ended |-> FALSE, seq |-> <<>>]
    ELSE Do(predecessor(m, x), LAMBDA nx :
         IF ~nx.ok \/ x \notin m.al
         THEN [ok |-> FALSE, ended |-> FALSE, seq |-> <<>>]
         ELSE Do(TraverseBackFrom(m, nx.v, fuel - 1), LAMBDA rest :
              [rest EXCEPT !.seq = <<Ky(m, x)>> \o rest.seq]))

Reverse(q) == [i \in 1..Len(q) |-> q[Len(q) + 1 - i]]

\* C20: on every reachable tree and for every stored node x, successor(x) is
\* the node of the smallest key greater than x's key, the sentinel when x
\* holds the maximum, and predecessor(x) is the node of the largest key
\* smaller than x's key, the sentinel when x holds the minimum; so -- repeated
\* from max() visits all stored keys in strictly decreasing order and then
\* reaches end().
C20_SuccessorPredecessor ==
    \A m \in {Machine("a")} :
        /\ \A x \in Nodes(m) :
               /\ successor(m, x).ok /\ predecessor(m, x).ok
               /\ NextByKey(m, keys["a"], x)
               /\ PrevByKey(m, keys["a"], x)
        /\ \A hi \in {tree_max(m)} :
               /\ hi.ok
               /\ \A w \in {TraverseBackFrom(m, hi.v, Fuel)} :
                      /\ w.ok /\ w.ended
                      /\ StrictlyIncreasing(Reverse(w.seq))
                      /\ Reverse(w.seq) = SortedSeq(keys["a"])

\* a node without left child whose predecessor is not its parent: the walk
\* up through the parents takes more than one step
C20_Witness ==
    /\ ret.op = "erase" /\ ret.flag
    /\ Cardinality(keys["a"]) >= 5
    /\ \E m \in {Machine("a")} :
       \E x \in Nodes(m) :
           /\ Lf(m, x) = m.nil
           /\ predecessor(m, x).ok
           /\ predecessor(m, x).v \notin {m.nil, Pa(m, x)}

\* the addresses tree t holds: its sentinel and the nodes below its root
Owned(t) ==
    IF m_nil[t] = NULL THEN {}
    ELSE Nodes(Machine(t)) \cup {m_nil[t]}

\* C21: each tree alone owns its nodes and frees each once: at every
\* observable point the allocated nodes are exactly the sentinels of the
\* trees and the nodes reachable from their roots, no address belongs to two
\* trees, and the number of a tree's nodes is its size(); erase frees one
\* node, clear frees all nodes of the tree, move assignment and destruction
\* free all nodes and the sentinel the tree held, and no copy, move or
\* destruction frees an address twice or leaves one unfreed.
C21_Ownership ==
    /\ [](/\ ~fault
          /\ allocated = Owned("a") \cup Owned("b")
          /\ Owned("a") \cap Owned("b") = {}
          /\ \A t \in Tree :
                 m_nil[t] # NULL =>
                     \A m \in {Machine(t)} :
                         /\ m.nil \notin Nodes(m)
                         /\ size(m) = Ok(Cardinality(Nodes(m))))
    /\ [][\A had \in {Owned(ret'.t)} :
          \A nodes \in {had \ {m_nil[ret'.t]}} :
              /\ (ret'.op = "erase" /\ ret'.flag) =>
                     /\ allocated' \subseteq allocated
                     /\ Cardinality(allocated \ allocated') = 1
                     /\ allocated \ allocated' \subseteq nodes
              /\ ret'.op = "clear" => allocated' = allocated \ nodes
              /\ ret'.op = "destroy" => allocated' = allocated \ had
              /\ (ret'.op = "move_assign" /\ ret'.t # ret'.kind) =>
                     /\ had \cap allocated' \subseteq {m_nil'[ret'.kind]}
                     /\ m_nil'[ret'.kind] \notin allocated \ had
                     /\ Cardinality(allocated') =
                            Cardinality(allocated) - Cardinality(had) + 1
         ]_vars

\* a move assignment over a populated destination from a populated source
C21_Witness ==
    /\ ret.op = "move_assign" /\ ret.flag /\ ret.key >= 2
    /\ Cardinality(keys[ret.t]) >= 2
    /\ allocated = Owned("a") \cup Owned("b")

\* the number of parent links from start up to stop, -1 when stop is not
\* reached within fuel links: the length of the walk of updateSize and of the
\* walks of successor and predecessor through the parents
RECURSIVE WalkSteps(_, _, _, _)
WalkSteps(m, start, stop, fuel) ==
    IF start = stop THEN 0
    ELSE IF fuel = 0 \/ start \notin m.al THEN -1
    ELSE Do(WalkSteps(m, Pa(m, start), stop, fuel - 1), LAMBDA r :
         IF r = -1 THEN -1 ELSE r + 1)

\* the number of iterations of fixup_insert's loop from z, -1 when the loop
\* is still running after fuel iterations or an iteration neither moves z
\* nearer to the root nor ends the loop
RECURSIVE InsertFixupSteps(_, _, _)
InsertFixupSteps(m, z, fuel) ==
    IF m.fault THEN -1
    ELSE IF Co(m, Pa(m, z)) # RED THEN 0
    ELSE IF fuel = 0 THEN -1
    ELSE Do(IF Pa(m, z) = Lf(m, Pa(m, Pa(m, z)))
            THEN fixup_insert_left(m, z)
            ELSE fixup_insert_right(m, z), LAMBDA s :
         IF ~(\/ Co(s.m, Pa(s.m, s.z)) # RED
              \/ /\ WalkSteps(s.m, s.z, s.m.nil, Fuel) # -1
                 /\ WalkSteps(s.m, s.z, s.m.nil, Fuel)
                        < WalkSteps(m, z, m.nil, Fuel))
         THEN -1
         ELSE Do(InsertFixupSteps(s.m, s.z, fuel - 1), LAMBDA r :
              IF r = -1 THEN -1 ELSE r + 1))

\* the same for fixup_erase's loop from x
RECURSIVE EraseFixupSteps(_, _, _)
EraseFixupSteps(m, x, fuel) ==
    IF m.fault THEN -1
    ELSE IF ~(x # m.root /\ Co(m, x) = BLACK) THEN 0
    ELSE IF fuel = 0 THEN -1
    ELSE Do(IF x = Lf(m, Pa(m, x))
            THEN fixup_erase_left(m, x)
            ELSE fixup_erase_right(m, x), LAMBDA s :
         IF ~(\/ ~(s.x # s.m.root /\ Co(s.m, s.x) = BLACK)
              \/ /\ WalkSteps(s.m, s.x, s.m.nil, Fuel) # -1
                 /\ WalkSteps(s.m, s.x, s.m.nil, Fuel)
                        < WalkSteps(m, x, m.nil, Fuel))
         THEN -1
         ELSE Do(EraseFixupSteps(s.m, s.x, fuel - 1), LAMBDA r :
              IF r = -1 THEN -1 ELSE r + 1))

\* the loops insert(key) runs on tree m: the length of the size walk over
\* the ancestors and the iterations of the fixup loop, -1 for a loop that
\* does not end
InsertLoops(m, key) ==
    Do(insert_descend(m, key, m.root, m.nil), LAMBDA d :
    IF d.found \/ d.fault THEN [walk |-> 0, fixup |-> 0]
    ELSE Do(new_addr(m, m.nil + key), LAMBDA z :
         Do(insert_link(new_node(m, z, key, 1, m.nil, m.nil, d.y, RED), z, d.y),
            LAMBDA m2 :
         Do(WalkSteps(m2, Pa(m2, z), m2.nil, Fuel), LAMBDA walk :
         IF walk = -1 THEN [walk |-> -1, fixup |-> -1]
         ELSE [walk |-> walk,
               fixup |-> InsertFixupSteps(updateSize(m2, Pa(m2, z), m2.nil, 1),
                                          z, Fuel)]))))

\* the loops the rest of erase(node*) runs once the first size walk is done
EraseLoopsAfterWalk(m1, z, walk) ==
    Do(Lf(m1, z) # m1.nil /\ Rt(m1, z) # m1.nil, LAMBDA two :
    Do(IF two THEN min(m1, Rt(m1, z)).v ELSE z, LAMBDA y :
    Do(IF two /\ Pa(m1, y) # z THEN WalkSteps(m1, Pa(m1, y), z, Fuel) ELSE 0,
       LAMBDA inner :
    IF inner = -1 THEN [walk |-> walk, inner |-> -1, fixup |-> -1]
    ELSE Do(erase_splice(m1, z), LAMBDA s :
         [walk |-> walk, inner |-> inner,
          fixup |-> IF s.y_original_color = BLACK
                    THEN EraseFixupSteps(s.m, s.x, Fuel) ELSE 0]))))

\* the loops erase(key) runs on tree m: the size walk over the ancestors of
\* the erased node z, the size walk from the successor's parent up to z, and
\* the iterations of the fixup loop, -1 for a loop that does not end
EraseLoops(m, key) ==
    Do(search(m, key), LAMBDA z :
    IF ~z.ok \/ z.v = m.nil THEN [walk |-> 0, inner |-> 0, fixup |-> 0]
    ELSE Do(WalkSteps(m, Pa(m, z.v), m.nil, Fuel), LAMBDA walk :
         IF walk = -1 THEN [walk |-> -1, inner |-> -1, fixup |-> -1]
         ELSE EraseLoopsAfterWalk(updateSize(m, Pa(m, z.v), m.nil, MinusOne),
                                  z.v, walk)))

\* C22: every public operation ends on every reachable tree: for every key,
\* the size walks of insert and erase reach their end (the walk from the
\* successor's parent reaches the erased node), the fixup loops of insert and
\* of erase end, each iteration either moving the fixup node nearer to the
\* root or being the last, and from every stored node the parent walk of
\* successor and predecessor reaches the sentinel.
C22_LoopsEnd ==
    \A m \in {Machine("a")} :
        /\ \A k \in Key :
           \A i \in {InsertLoops(m, k)} :
           \A e \in {EraseLoops(m, k)} :
               /\ i.walk # -1 /\ i.fixup # -1
               /\ e.walk # -1 /\ e.inner # -1 /\ e.fixup # -1
               /\ i.walk <= Cardinality(keys["a"])
               /\ e.walk <= Cardinality(keys["a"])
               /\ i.fixup <= i.walk /\ e.fixup <= e.walk + 1
        /\ \A x \in Nodes(m) :
               /\ WalkSteps(m, x, m.nil, Fuel) # -1
               /\ successor(m, x).ok /\ predecessor(m, x).ok

\* a tree on which some insert runs its fixup loop, some erase walks from the
\* successor's parent up to the erased node, and some erase of a node below
\* the root runs its fixup loop
C22_Witness ==
    /\ ret.op = "erase" /\ ret.flag
    /\ \E m \in {Machine("a")} :
           /\ \E k \in Key : InsertLoops(m, k).fixup >= 1
           /\ \E k \in Key : EraseLoops(m, k).inner >= 1
           /\ \E k \in Key :
                  EraseLoops(m, k).fixup >= 1 /\ EraseLoops(m, k).walk >= 1

\* the number of nodes on the longest path from x down to the sentinel
RECURSIVE Height(_, _, _)
Height(m, x, fuel) ==
    IF x = m.nil \/ x \notin m.al \/ fuel = 0 THEN 0
    ELSE Do(Height(m, Lf(m, x), fuel - 1), LAMBDA l :
         Do(Height(m, Rt(m, x), fuel - 1), LAMBDA r :
         1 + (IF l >= r THEN l ELSE r)))

\* C23: after any sequence of inserts and erases that leaves n stored keys
\* the height h of the tree, the number of nodes on the longest path from the
\* root to the sentinel, is at most 2*log2(n+1), that is 2^h <= (n+1)^2.
C23_HeightBound ==
    \A m \in {Machine("a")} :
    \A n \in {Cardinality(keys["a"])} :
    \A h \in {Height(m, m.root, Fuel)} :
        /\ size(m) = Ok(n)
        /\ h <= n
        /\ 2^h <= (n + 1) * (n + 1)

C23_Witness ==
    /\ ret.op = "insert" /\ ret.flag
    /\ Cardinality(keys["a"]) = 6
    /\ \E m \in {Machine("a")} : Height(m, m.root, Fuel) = 4

\* C24: the size field of the sentinel is 0 in every reachable state and no
\* insert, erase or clear changes it, so size() is the number of stored keys
\* and empty() is true exactly when no key is stored, also after the last
\* key was erased.
C24_SentinelSizeZero ==
    /\ [](\A m \in {Machine("a")} :
              /\ Sz(m, m.nil) = 0
              /\ size(m) = Ok(Cardinality(keys["a"]))
              /\ size(m) = Ok(Cardinality(Nodes(m)))
              /\ empty(m) = Ok(keys["a"] = {}))
    /\ [][heap'[m_nil'["a"]].size = heap[m_nil["a"]].size]_vars

C24_Witness ==
    /\ ret.op = "erase" /\ ret.flag /\ ret.kind = "no_left"
    /\ keys["a"] = {}
    /\ heap[m_nil["a"]].size = 0
    /\ \E m \in {Machine("a")} : size(m) = Ok(0) /\ empty(m) = Ok(TRUE)

\* C25: on a default-constructed or copy-constructed tree, in every
\* reachable state, ++ on end() gives end() and -- on end() gives end():
\* successor and predecessor of the sentinel are the sentinel, so -- on end()
\* does not step to the maximum key.
C25_EndStaysEnd ==
    \A t \in Tree :
        m_nil[t] # NULL =>
            \A m \in {Machine(t)} :
            \A e \in {end(m)} :
                /\ e.ok /\ e.v = m.nil
                /\ successor(m, e.v) = end(m)
                /\ predecessor(m, e.v) = end(m)
                /\ keys[t] # {} => predecessor(m, e.v) # tree_max(m)

\* a populated copy-constructed tree, after an erase on it
C25_Witness ==
    /\ ret.op = "erase" /\ ret.flag /\ ret.t = "b"
    /\ Cardinality(keys["b"]) >= 2
    /\ \E m \in {Machine("b")} :
           /\ tree_max(m).ok /\ tree_max(m).v \in Nodes(m)
           /\ predecessor(m, m.nil) = Ok(m.nil)

====
